---------------------------- MODULE Spec2Model ----------------------------
(***************************************************************************)
(* Model of the glyph vectorisation and stroke-sequencing pipeline of      *)
(* backend/app/core/ai_writing.py (curve track) and                        *)
(* backend/app/core/ai_drawing.py (line track).                            *)
(*                                                                         *)
(* Pixels of the curve track are (row, col) pairs as produced by           *)
(* skimage.measure.regionprops; pixels of the line track are (x, y) pairs  *)
(* (x = col + start_x, y = row + start_y).  Sequences are 1-based here,    *)
(* Python lists are 0-based: node i of the model is index i-1 of the code. *)
(***************************************************************************)
EXTENDS Integers, Sequences, FiniteSets, TLC

\* ------------------------------------------------------------------ bounds
\* Image height (rows) and width (columns) of the skeleton mask.
GridH == 3
GridW == 4
\* Largest number of pixels in a coordinate set handed to a function.
MaxLen == 4
\* Largest value the resampled arc length of a fitted spline is drawn from.
MaxArc == 1
\* Nested calls of segment_to_spline the interpreter allows before it
\* raises RecursionError (sys.getrecursionlimit(), 1000 by default).
RecursionLimit == 3
\* Largest x offset (start_x) a caller passes.
MaxOffset == 1
\* Longest primitive list handed to _draw_connected_paths on its own: two
\* full batches and one primitive more.
MaxSegments == 1401
\* Most axes, and longest axis, of an array handed to extract_skeleton.
MaxAxes == 3
MaxSide == 3
\* Longest row of pixels the inputs of invocations run side by side are
\* taken from.
MaxConcurrentLen == 3
\* Largest denominator of the parameters t an evaluator is called with.
MaxDen == 2
\* Longest component list _greedy_component_ordering is called with on its
\* own.
MaxComponents == 3

\* ------------------------------------------------------------------- state
VARIABLES
    pc,        \* position of the running call
    \* order_coordinates_along_path
    coords,    \* the input coordinate array, (row, col) per point
    ordered,   \* what the call produced
    \* _dfs_drawing_path
    component_pixels,  \* the input list of (x, y) pixels
    visited,           \* the call's visited set
    drawing_segments,  \* the primitives emitted, <<parent, child>> each
    call_stack,        \* the frames of the inner dfs, innermost last
    scan,              \* position of the loop over component_pixels
    \* _greedy_component_ordering
    components,            \* the input list of components
    ordered_components,    \* the components placed so far
    remaining_components,  \* the components not placed yet
    current_center,        \* centroid of the component placed last
    \* the image both tracks start from
    skeleton,        \* foreground pixels (row, col) of the skeleton mask
    \* curve track: extract_strokes, segments_to_splines,
    \* order_splines_left_to_right
    segments,        \* the ordered segments extract_strokes returned
    returned_junctions,  \* the junction mask extract_strokes returned
    fit_raises,      \* whether splprep raises on this image's segments
    depth,           \* nested calls of segment_to_spline on one segment
    splines,         \* the records segments_to_splines has appended
    ordered_splines, \* the list order_splines_left_to_right returned
    exception,       \* the exception that reached the caller, "" if none
    \* line track: draw_latex_to_tldraw, _draw_connected_paths
    start_x,            \* the caller's x offset
    start_y,            \* the caller's y offset
    all_drawing_paths,  \* the primitives of all components, in order
    posted,             \* the batches posted so far, with their outcome
    success,            \* what draw_latex_to_tldraw returned
    \* the buffer handed to extract_skeleton or thresholded by
    \* draw_latex_to_tldraw
    buffer_shape,    \* the shape of the input array, one entry per axis
    stages_run,      \* the statements that have run on it, in order
    raised_error,    \* the exception a statement raised, "" if none
    \* invocations running side by side
    calls,           \* per invocation: its arguments, locals and position
    \* the evaluator segment_to_spline returned, applied to a parameter
    spline_segment,  \* the segment the evaluator closes over
    spline_t,        \* the parameter t, as the fraction <<numerator, denominator>>
    spline_value     \* what linear_spline(t) returned

varsOrder == <<coords, ordered>>
varsDfs == <<component_pixels, visited, drawing_segments, call_stack, scan>>
varsGreedy ==
    <<components, ordered_components, remaining_components, current_center>>
varsCurve ==
    <<skeleton, segments, returned_junctions, fit_raises, depth, splines,
      ordered_splines, exception>>
varsLine == <<start_x, start_y, all_drawing_paths, posted, success>>
varsBinarize == <<buffer_shape, stages_run, raised_error>>
varsCalls == <<calls>>
varsEval == <<spline_segment, spline_t, spline_value>>
vars ==
    <<pc, varsOrder, varsDfs, varsGreedy, varsCurve, varsLine, varsBinarize,
      varsCalls, varsEval>>

notOrder ==
    <<varsDfs, varsGreedy, varsCurve, varsLine, varsBinarize, varsCalls,
      varsEval>>
notDfs ==
    <<varsOrder, varsGreedy, varsCurve, varsLine, varsBinarize, varsCalls,
      varsEval>>
notGreedy ==
    <<varsOrder, varsDfs, varsCurve, varsLine, varsBinarize, varsCalls,
      varsEval>>
notCurve ==
    <<varsOrder, varsDfs, varsGreedy, varsLine, varsBinarize, varsCalls,
      varsEval>>
notBinarize ==
    <<varsOrder, varsDfs, varsGreedy, varsCurve, varsLine, varsCalls, varsEval>>
notLine ==
    <<varsOrder, varsDfs, varsGreedy, varsCurve, varsBinarize, varsCalls,
      varsEval>>

\* The state of the functions a specification does not exercise.
IdleOrder == coords = <<>> /\ ordered = [raised |-> FALSE, value |-> <<>>]
IdleDfs ==
    /\ component_pixels = <<>>
    /\ visited = {}
    /\ drawing_segments = <<>>
    /\ call_stack = <<>>
    /\ scan = 0
IdleGreedy ==
    /\ components = <<>>
    /\ ordered_components = <<>>
    /\ remaining_components = <<>>
    /\ current_center = <<0, 0, 1>>
IdleCurve ==
    /\ skeleton = {}
    /\ segments = <<>>
    /\ returned_junctions = {}
    /\ fit_raises = FALSE
    /\ depth = 0
    /\ splines = <<>>
    /\ ordered_splines = <<>>
    /\ exception = ""
IdleLine ==
    /\ start_x = 0
    /\ start_y = 0
    /\ all_drawing_paths = <<>>
    /\ posted = <<>>
    /\ success = FALSE
IdleBinarize == buffer_shape = <<>> /\ stages_run = <<>> /\ raised_error = ""
IdleCalls == calls = <<>>
IdleEval == spline_segment = <<>> /\ spline_t = <<0, 1>> /\ spline_value = <<>>

\* ------------------------------------------------------- generic helpers
Range(s) == {s[i] : i \in 1..Len(s)}

IsInjective(s) == \A i, j \in 1..Len(s) : s[i] = s[j] => i = j

\* Row-major order of regionprops' coords (np.nonzero order): by first
\* component, then by second.
RowMajorLess(p, q) == p[1] < q[1] \/ (p[1] = q[1] /\ p[2] < q[2])

\* The first pixel of a non-empty set in raster (row-major) order.
FirstPixel(S) == CHOOSE p \in S : \A q \in S \ {p} : RowMajorLess(p, q)

RECURSIVE RowMajorSeq(_)
RowMajorSeq(S) ==
    IF S = {} THEN <<>>
    ELSE <<FirstPixel(S)>> \o RowMajorSeq(S \ {FirstPixel(S)})

\* 8-connectivity, as used by measure.label(..., connectivity=2).
Abs(n) == IF n < 0 THEN -n ELSE n

EightAdjacent(p, q) ==
    p # q /\ Abs(p[1] - q[1]) <= 1 /\ Abs(p[2] - q[2]) <= 1

\* The pixels of S joined to p by a chain of 8-adjacent pixels of S.
RECURSIVE Grow8(_, _)
Grow8(S, T) ==
    LET more == {q \in S \ T : \E p \in T : EightAdjacent(p, q)}
    IN  IF more = {} THEN T ELSE Grow8(S, T \cup more)

Connected8(S) == S = {} \/ \E p \in S : Grow8(S, {p}) = S

\* The 8-connected parts of a pixel set.
Parts8(S) == {Grow8(S, {p}) : p \in S}

\* measure.label numbers the parts in raster order of their first pixel and
\* regionprops lists them by label: the parts of S in that order.
RECURSIVE LabelOrderOf(_)
LabelOrderOf(parts) ==
    IF parts = {} THEN <<>>
    ELSE LET first == CHOOSE P \in parts :
                          \A Q \in parts \ {P} :
                              RowMajorLess(FirstPixel(P), FirstPixel(Q))
         IN  <<first>> \o LabelOrderOf(parts \ {first})

LabelOrder(S) == LabelOrderOf(Parts8(S))

\* All pixels (row, col) of the image.
Pixels == (0..(GridH - 1)) \X (0..(GridW - 1))

\* The coordinate sets the functions are exercised on, each of any shape.
PixelSets == {S \in SUBSET Pixels : Cardinality(S) <= MaxLen}

\* A result of a call: a returned value, or an exception reaching the caller.
Returned(v) == [raised |-> FALSE, value |-> v]
Raised(name) == [raised |-> TRUE, value |-> <<name>>]
NoResult == [raised |-> FALSE, value |-> <<>>]

\* ------------------------------------------ order_coordinates_along_path
SqDist(p, q) == (p[1] - q[1]) * (p[1] - q[1]) + (p[2] - q[2]) * (p[2] - q[2])

\* np.linalg.norm(coord1 - coord2) <= 1.42, on integer coordinates.
Adjacent(p, q) == SqDist(p, q) * 10000 <= 142 * 142

\* G[i]: the neighbours of node i in insertion order.  Edges (i, j), i < j,
\* are added for ascending i and, within i, ascending j, so every node's
\* adjacency is in ascending node order.
GraphNeighbors(cs, i) ==
    SelectSeq([j \in 1..Len(cs) |-> j],
              LAMBDA j : j # i /\ Adjacent(cs[i], cs[j]))

GraphDegree(cs, i) == Len(GraphNeighbors(cs, i))

\* endpoints = [node for node, degree in G.degree() if degree == 1]
endpoints(cs) ==
    SelectSeq([j \in 1..Len(cs) |-> j], LAMBDA j : GraphDegree(cs, j) = 1)

\* Nodes at BFS distance exactly d from s (empty beyond the component).
RECURSIVE BfsLayer(_, _, _)
BfsLayer(cs, s, d) ==
    IF d = 0 THEN {s}
    ELSE LET prev == BfsLayer(cs, s, d - 1)
             seen == UNION {BfsLayer(cs, s, e) : e \in 0..(d - 1)}
         IN  {j \in 1..Len(cs) : j \notin seen
                  /\ \E i \in prev : Adjacent(cs[i], cs[j]) /\ i # j}

Reachable(cs, s) == UNION {BfsLayer(cs, s, d) : d \in 0..Len(cs)}

GraphDist(cs, s, t) == CHOOSE d \in 0..Len(cs) : t \in BfsLayer(cs, s, d)

\* The paths of exactly d edges from s to v that advance one BFS layer per edge.
RECURSIVE LayeredPaths(_, _, _, _)
LayeredPaths(cs, s, v, d) ==
    IF d = 0 THEN (IF v = s THEN {<<s>>} ELSE {})
    ELSE UNION {{Append(p, v) : p \in LayeredPaths(cs, s, u, d - 1)} :
                u \in {w \in BfsLayer(cs, s, d - 1) :
                           w # v /\ Adjacent(cs[w], cs[v])}}

\* nx.shortest_path(G, s, t): the shortest s-t paths of G; the library
\* returns one of them and raises NetworkXNoPath when there is none.
ShortestPaths(cs, s, t) ==
    IF t \in Reachable(cs, s)
    THEN LayeredPaths(cs, s, t, GraphDist(cs, s, t))
    ELSE {}

\* nx.dfs_preorder_nodes(G, start): depth-first preorder, children taken in
\* adjacency order; only the component of start is visited.
RECURSIVE DfsPreorderFrom(_, _, _, _)
DfsPreorderFrom(cs, order, v, k) ==
    \* order: nodes visited so far (v among them); k: next neighbour of v
    LET nb == GraphNeighbors(cs, v)
    IN  IF k > Len(nb) THEN order
        ELSE IF nb[k] \in Range(order)
             THEN DfsPreorderFrom(cs, order, v, k + 1)
             ELSE DfsPreorderFrom(cs,
                      DfsPreorderFrom(cs, Append(order, nb[k]), nb[k], 1),
                      v, k + 1)

\* The traversal were it started at the last node of the graph.
PreorderFromLastNode(cs, start) == DfsPreorderFrom(cs, <<Len(cs)>>, Len(cs), 1)

dfs_preorder_nodes(cs, start) == DfsPreorderFrom(cs, <<start>>, start, 1)

\* The paths (node sequences) order_coordinates_along_path may trace for
\* len(coords) > 2; the empty set stands for NetworkXNoPath.
TracedPaths(cs) ==
    LET eps == endpoints(cs)
    IN  IF Len(eps) >= 2
        THEN ShortestPaths(cs, eps[1], eps[2])
        ELSE {dfs_preorder_nodes(cs, 1)}

\* The call were it to return the coordinates in the order it got them.
CoordinatesAsGiven(cs) == {Returned(cs)}

\* The results a call order_coordinates_along_path(coords) can have.
order_coordinates_along_path(cs) ==
    IF Len(cs) <= 2 THEN {Returned(cs)}
    ELSE IF TracedPaths(cs) = {} THEN {Raised("NetworkXNoPath")}
    ELSE {Returned([i \in 1..Len(path) |-> cs[path[i]]]) :
              path \in TracedPaths(cs)}

\* ---------------------------------------------- specification SpecOrder
\* One call of order_coordinates_along_path on a coordinate array in
\* regionprops order.
InitOrder ==
    /\ pc = "order_call"
    /\ coords \in {RowMajorSeq(S) : S \in PixelSets}
    /\ ordered = NoResult
    /\ IdleDfs
    /\ IdleGreedy
    /\ IdleCurve
    /\ IdleLine
    /\ IdleBinarize
    /\ IdleCalls
    /\ IdleEval

CallOrderCoordinates ==
    /\ pc = "order_call"
    /\ ordered' \in order_coordinates_along_path(coords)
    /\ pc' = "order_done"
    /\ UNCHANGED <<coords, notOrder>>

NextOrder == CallOrderCoordinates

SpecOrder == InitOrder /\ [][NextOrder]_vars

\* A sequence that holds every element of the other exactly once.
IsPermutationOf(out, in) ==
    /\ Len(out) = Len(in)
    /\ IsInjective(out)
    /\ Range(out) = Range(in)

\* C1: the output of order_coordinates_along_path is a permutation of its
\* input, for every input coordinate set: the call returns, and every input
\* coordinate appears exactly once in the output and no other one does.
C1_OutputIsPermutation ==
    pc = "order_done" =>
        /\ ~ordered.raised
        /\ IsPermutationOf(ordered.value, coords)

\* ------------------------------------------------------ _dfs_drawing_path
\* The (dx, dy) steps in the order of the two nested loops over [-1, 0, 1],
\* the step (0, 0) skipped.
NeighborOffsets ==
    <<<<-1, -1>>, <<-1, 0>>, <<-1, 1>>, <<0, -1>>,
      <<0, 1>>, <<1, -1>>, <<1, 0>>, <<1, 1>>>>

\* adjacency[pixel] were the loops to skip the diagonal offsets.
AdjacencyWithoutDiagonals(cp, pixel) ==
    LET all == [k \in 1..Len(NeighborOffsets) |->
                    <<pixel[1] + NeighborOffsets[k][1],
                      pixel[2] + NeighborOffsets[k][2]>>]
    IN  SelectSeq(all, LAMBDA nb : nb \in Range(cp)
                                       /\ (nb[1] = pixel[1]
                                           \/ nb[2] = pixel[2]))

\* adjacency[pixel]: the 8-neighbours of pixel that are in pixel_set, in
\* loop order.
adjacency(cp, pixel) ==
    LET all == [k \in 1..Len(NeighborOffsets) |->
                    <<pixel[1] + NeighborOffsets[k][1],
                      pixel[2] + NeighborOffsets[k][2]>>]
    IN  SelectSeq(all, LAMBDA nb : nb \in Range(cp))

\* min(component_pixels, key=lambda p: (p[1], p[0])): smallest y, then
\* smallest x; the first such in list order.
KeyLessYX(p, q) == p[2] < q[2] \/ (p[2] = q[2] /\ p[1] < q[1])

\* The start pixel were the key (p[0], p[1]): smallest x, then smallest y.
StartPixelLeftmost(cp) ==
    cp[CHOOSE i \in 1..Len(cp) :
          /\ \A j \in 1..Len(cp) : ~KeyLessYX(<<cp[j][2], cp[j][1]>>,
                                               <<cp[i][2], cp[i][1]>>)
          /\ \A j \in 1..(i - 1) : KeyLessYX(<<cp[i][2], cp[i][1]>>,
                                              <<cp[j][2], cp[j][1]>>)]

start_pixel(cp) ==
    cp[CHOOSE i \in 1..Len(cp) :
          /\ \A j \in 1..Len(cp) : ~KeyLessYX(cp[j], cp[i])
          /\ \A j \in 1..(i - 1) : KeyLessYX(cp[i], cp[j])]

\* The call-scoped state of the traversal: the closure variables visited
\* and drawing_segments.
DfsState(v, segs) == [visited |-> v, drawing_segments |-> segs]

\* The primitive dfs appends: [parent_coords, current_coords].
EmittedSegmentReversed(parent_pixel, current_pixel) ==
    <<current_pixel, parent_pixel>>

EmittedSegment(parent_pixel, current_pixel) == <<parent_pixel, current_pixel>>

NoParent == <<>>

\* The inner function dfs(current_pixel, parent_pixel); DfsVisitNeighbors is
\* its loop over adjacency[current_pixel] from position k on.
RECURSIVE dfs(_, _, _, _), DfsVisitNeighbors(_, _, _, _)
dfs(cp, st, current_pixel, parent_pixel) ==
    IF current_pixel \in st.visited THEN st
    ELSE LET entered ==
                 DfsState(st.visited \cup {current_pixel},
                          IF parent_pixel # NoParent
                          THEN Append(st.drawing_segments,
                                      EmittedSegment(parent_pixel, current_pixel))
                          ELSE st.drawing_segments)
         IN  DfsVisitNeighbors(cp, entered, current_pixel, 1)

DfsVisitNeighbors(cp, st, current_pixel, k) ==
    LET nbs == adjacency(cp, current_pixel)
    IN  IF k > Len(nbs) THEN st
        ELSE DfsVisitNeighbors(cp,
                 IF nbs[k] \notin st.visited
                 THEN dfs(cp, st, nbs[k], current_pixel)
                 ELSE st,
                 current_pixel, k + 1)

\* for pixel in component_pixels: if pixel not in visited: dfs(pixel)
RECURSIVE RescanUnvisited(_, _, _)
RescanUnvisited(cp, st, i) ==
    IF i > Len(cp) THEN st
    ELSE RescanUnvisited(cp,
             IF cp[i] \notin st.visited THEN dfs(cp, st, cp[i], NoParent) ELSE st,
             i + 1)

\* The traversal without the loop over the pixels left unvisited.
DfsDrawingPathNoRescan(cp) ==
    IF Len(cp) < 2 THEN DfsState({}, <<>>)
    ELSE dfs(cp, DfsState({}, <<>>), start_pixel(cp), NoParent)

\* _dfs_drawing_path(component_pixels): the final visited set and the
\* returned drawing_segments.
dfs_drawing_path(cp) ==
    IF Len(cp) < 2 THEN DfsState({}, <<>>)
    ELSE RescanUnvisited(cp,
             dfs(cp, DfsState({}, <<>>), start_pixel(cp), NoParent), 1)

\* ------------------------------------------------ specification SpecDfs
\* A (row, col) pixel as the (x, y) pair of the line track, offsets 0.
ToXY(p) == <<p[2], p[1]>>

XYSeq(S) == [i \in 1..Cardinality(S) |-> ToXY(RowMajorSeq(S)[i])]

\* One call of _dfs_drawing_path on a pixel list in regionprops order.
InitDfs ==
    /\ pc = "dfs_call"
    /\ component_pixels \in {XYSeq(S) : S \in PixelSets}
    /\ visited = {}
    /\ drawing_segments = <<>>
    /\ call_stack = <<>>
    /\ scan = 0
    /\ IdleOrder
    /\ IdleGreedy
    /\ IdleCurve
    /\ IdleLine
    /\ IdleBinarize
    /\ IdleCalls
    /\ IdleEval

CallDfsDrawingPath ==
    /\ pc = "dfs_call"
    /\ visited' = dfs_drawing_path(component_pixels).visited
    /\ drawing_segments' = dfs_drawing_path(component_pixels).drawing_segments
    /\ pc' = "dfs_done"
    /\ UNCHANGED <<component_pixels, call_stack, scan, notDfs>>

NextDfs == CallDfsDrawingPath

SpecDfs == InitDfs /\ [][NextDfs]_vars

\* The pixel with the smallest y (row) and, among those, the smallest x.
TopLeftMost(cp) ==
    CHOOSE p \in Range(cp) :
        \A q \in Range(cp) : p[2] < q[2] \/ (p[2] = q[2] /\ p[1] <= q[1])

SegmentEnds(segs) == UNION {{segs[i][1], segs[i][2]} : i \in 1..Len(segs)}

\* C2: when _dfs_drawing_path returns for a component of n >= 2 pixels,
\* every pixel of the component is in the visited set; and when the
\* component is 8-connected, every pixel is an endpoint of some primitive.
C2_AllPixelsVisited ==
    (pc = "dfs_done" /\ Len(component_pixels) >= 2) =>
        /\ visited = Range(component_pixels)
        /\ Connected8(Range(component_pixels)) =>
               Range(component_pixels) \subseteq SegmentEnds(drawing_segments)

\* A component in several 8-connected parts, fully visited, with primitives.
C2_Witness ==
    /\ pc = "dfs_done"
    /\ Len(component_pixels) >= 3
    /\ ~Connected8(Range(component_pixels))
    /\ visited = Range(component_pixels)
    /\ drawing_segments # <<>>

\* The pixels p0, p0 + d, ..., p0 + (n-1)d for a unit step d that is
\* horizontal, vertical or diagonal.
IsStraightLine(S) ==
    \E p0 \in S, d \in {<<1, 0>>, <<0, 1>>, <<1, 1>>, <<1, -1>>} :
        S = {<<p0[1] + k * d[1], p0[2] + k * d[2]>> :
                 k \in 0..(Cardinality(S) - 1)}

IsChain(segs) == \A i \in 1..(Len(segs) - 1) : segs[i][2] = segs[i + 1][1]

\* C3: for a straight line of n >= 2 pixels, _dfs_drawing_path emits
\* exactly n - 1 primitives, the end of each is the start of the next, and
\* the first starts at the top-left-most pixel.
C3_StraightLineChain ==
    (/\ pc = "dfs_done"
     /\ Len(component_pixels) >= 2
     /\ IsStraightLine(Range(component_pixels))) =>
        /\ Len(drawing_segments) = Len(component_pixels) - 1
        /\ IsChain(drawing_segments)
        /\ drawing_segments[1][1] = TopLeftMost(component_pixels)

\* A diagonal line of three or more pixels has been traversed.
C3_Witness ==
    /\ pc = "dfs_done"
    /\ Len(component_pixels) >= 3
    /\ IsStraightLine(Range(component_pixels))
    /\ \A i \in 1..Len(drawing_segments) :
           /\ drawing_segments[i][1][1] # drawing_segments[i][2][1]
           /\ drawing_segments[i][1][2] # drawing_segments[i][2][2]

\* ------------------------------------------- specification SpecDfsSteps
\* _dfs_drawing_path statement by statement.  A frame of call_stack is one
\* activation of the inner dfs: its current_pixel and the position its loop
\* over adjacency[current_pixel] is at.
Frame(current_pixel, k) == [pixel |-> current_pixel, next |-> k]

\* The call dfs(current_pixel, parent_pixel) up to its loop, made with stack
\* as the frames of the callers: return at once on a visited pixel;
\* otherwise mark it, emit the primitive when there is a parent, and start
\* the loop over its neighbours.
DfsEnter(current_pixel, parent_pixel, stack) ==
    IF current_pixel \in visited
    THEN /\ call_stack' = stack
         /\ UNCHANGED <<visited, drawing_segments>>
    ELSE /\ visited' = visited \cup {current_pixel}
         /\ drawing_segments' =
                IF parent_pixel # NoParent
                THEN Append(drawing_segments,
                            EmittedSegment(parent_pixel, current_pixel))
                ELSE drawing_segments
         /\ call_stack' = Append(stack, Frame(current_pixel, 1))

\* len(component_pixels) < 2: return []; otherwise dfs(start_pixel).
DfsBegin ==
    /\ pc = "dfs_begin"
    /\ IF Len(component_pixels) < 2
       THEN /\ pc' = "dfs_done"
            /\ UNCHANGED <<visited, drawing_segments, call_stack>>
       ELSE /\ pc' = "dfs_run"
            /\ DfsEnter(start_pixel(component_pixels), NoParent, <<>>)
    /\ UNCHANGED <<component_pixels, scan, notDfs>>

\* One iteration of  for neighbor in adjacency[current_pixel]  in the
\* innermost activation: dfs(neighbor, current_pixel) when the neighbour is
\* not visited.
DfsVisitNeighbor ==
    /\ pc = "dfs_run"
    /\ call_stack # <<>>
    /\ LET top == call_stack[Len(call_stack)]
           nbs == adjacency(component_pixels, top.pixel)
           advanced ==
               [call_stack EXCEPT ![Len(call_stack)].next = top.next + 1]
       IN  /\ top.next <= Len(nbs)
           /\ IF nbs[top.next] \notin visited
              THEN DfsEnter(nbs[top.next], top.pixel, advanced)
              ELSE /\ call_stack' = advanced
                   /\ UNCHANGED <<visited, drawing_segments>>
    /\ UNCHANGED <<pc, component_pixels, scan, notDfs>>

\* The loop of the innermost activation is over: it returns.
DfsReturn ==
    /\ pc = "dfs_run"
    /\ call_stack # <<>>
    /\ LET top == call_stack[Len(call_stack)]
       IN  top.next > Len(adjacency(component_pixels, top.pixel))
    /\ call_stack' = SubSeq(call_stack, 1, Len(call_stack) - 1)
    /\ UNCHANGED <<pc, component_pixels, visited, drawing_segments, scan,
                   notDfs>>

\* One iteration of  for pixel in component_pixels: if pixel not in
\* visited: dfs(pixel).
DfsScan ==
    /\ pc = "dfs_run"
    /\ call_stack = <<>>
    /\ scan < Len(component_pixels)
    /\ scan' = scan + 1
    /\ IF component_pixels[scan + 1] \notin visited
       THEN DfsEnter(component_pixels[scan + 1], NoParent, <<>>)
       ELSE UNCHANGED <<visited, drawing_segments, call_stack>>
    /\ UNCHANGED <<pc, component_pixels, notDfs>>

\* return drawing_segments
DfsFinish ==
    /\ pc = "dfs_run"
    /\ call_stack = <<>>
    /\ scan = Len(component_pixels)
    /\ pc' = "dfs_done"
    /\ UNCHANGED <<varsDfs, notDfs>>

InitDfsSteps ==
    /\ pc = "dfs_begin"
    /\ component_pixels \in {XYSeq(S) : S \in PixelSets}
    /\ visited = {}
    /\ drawing_segments = <<>>
    /\ call_stack = <<>>
    /\ scan = 0
    /\ IdleOrder
    /\ IdleGreedy
    /\ IdleCurve
    /\ IdleLine
    /\ IdleBinarize
    /\ IdleCalls
    /\ IdleEval

NextDfsSteps ==
    \/ DfsBegin
    \/ DfsVisitNeighbor
    \/ DfsReturn
    \/ DfsScan
    \/ DfsFinish

SpecDfsSteps == InitDfsSteps /\ [][NextDfsSteps]_vars

\* ---------------------------------------------- _greedy_component_ordering
RECURSIVE SumSeq(_)
SumSeq(s) == IF s = <<>> THEN 0 ELSE Head(s) + SumSeq(Tail(s))

MinOfSet(S) == CHOOSE m \in S : \A n \in S : m <= n

\* min(pixel[0] for pixel in comp) with the y coordinate taken for x.
MinXFromY(comp) == MinOfSet({comp[i][2] : i \in 1..Len(comp)})

\* min(pixel[0] for pixel in comp)
MinX(comp) == MinOfSet({comp[i][1] : i \in 1..Len(comp)})

\* min(components, key=...): the first component whose key is smallest.
leftmost_component(comps) ==
    comps[CHOOSE i \in 1..Len(comps) :
             /\ \A j \in 1..Len(comps) : MinX(comps[i]) <= MinX(comps[j])
             /\ \A j \in 1..(i - 1) : MinX(comps[j]) > MinX(comps[i])]

\* _get_component_center: (sum x / n, sum y / n), kept as the exact
\* fraction <<sum x, sum y, n>>.
get_component_center(comp) ==
    <<SumSeq([i \in 1..Len(comp) |-> comp[i][1]]),
      SumSeq([i \in 1..Len(comp) |-> comp[i][2]]),
      Len(comp)>>

\* The square of _distance(c, d) for centroids c and d, times
\* (c[3] * d[3])^2.
ScaledSqDistance(c, d) ==
    (c[1] * d[3] - d[1] * c[3]) * (c[1] * d[3] - d[1] * c[3])
        + (c[2] * d[3] - d[2] * c[3]) * (c[2] * d[3] - d[2] * c[3])

\* _distance(center, a) < _distance(center, b) for centroids a, b.
DistanceLess(center, a, b) ==
    ScaledSqDistance(center, a) * b[3] * b[3]
        < ScaledSqDistance(center, b) * a[3] * a[3]

\* min(remaining_components, key=distance to current_center): the index
\* of the first component at the smallest distance.
ClosestIndex(center, remaining) ==
    CHOOSE i \in 1..Len(remaining) :
        /\ \A j \in 1..Len(remaining) :
               ~DistanceLess(center, get_component_center(remaining[j]),
                             get_component_center(remaining[i]))
        /\ \A j \in 1..(i - 1) :
               DistanceLess(center, get_component_center(remaining[i]),
                            get_component_center(remaining[j]))

\* The list were remove to leave it as it is.
ListRemoveNothing(s, x) == s

\* list.remove(x): the list without its first element equal to x.
ListRemove(s, x) ==
    LET k == CHOOSE i \in 1..Len(s) :
                 s[i] = x /\ \A j \in 1..(i - 1) : s[j] # x
    IN  SubSeq(s, 1, k - 1) \o SubSeq(s, k + 1, Len(s))

\* The centre the search continues from keeps being the leftmost one.
CenterAfterStale(center, closest) == center

\* current_center after closest_component has been placed.
CenterAfter(center, closest) == get_component_center(closest)

\* not components: return []; otherwise place the leftmost component.
GreedyStart ==
    /\ pc = "greedy_start"
    /\ IF components = <<>>
       THEN /\ ordered_components' = <<>>
            /\ pc' = "greedy_done"
            /\ UNCHANGED <<remaining_components, current_center>>
       ELSE LET first == leftmost_component(components)
            IN  /\ ordered_components' = <<first>>
                /\ remaining_components' =
                       SelectSeq(components, LAMBDA comp : comp # first)
                /\ current_center' = get_component_center(first)
                /\ pc' = "greedy_loop"
    /\ UNCHANGED <<components, notGreedy>>

\* One iteration of  while remaining_components.
GreedyIterate ==
    /\ pc = "greedy_loop"
    /\ remaining_components # <<>>
    /\ LET closest_component ==
               remaining_components[
                   ClosestIndex(current_center, remaining_components)]
       IN  /\ ordered_components' =
                  Append(ordered_components, closest_component)
           /\ remaining_components' =
                  ListRemove(remaining_components, closest_component)
           /\ current_center' = CenterAfter(current_center, closest_component)
    /\ UNCHANGED <<pc, components, notGreedy>>

\* return ordered_components
GreedyReturn ==
    /\ pc = "greedy_loop"
    /\ remaining_components = <<>>
    /\ pc' = "greedy_done"
    /\ UNCHANGED <<varsGreedy, notGreedy>>

\* --------------------------------------------- specification SpecGreedy
\* The component list of a pixel set, single pixels kept: its 8-connected
\* parts in label order, each as (x, y) pixels in regionprops order.
ComponentList(S) ==
    [i \in 1..Len(LabelOrder(S)) |-> XYSeq(LabelOrder(S)[i])]

\* One call of _greedy_component_ordering.
InitGreedy ==
    /\ pc = "greedy_start"
    /\ components \in {ComponentList(S) : S \in PixelSets}
    /\ ordered_components = <<>>
    /\ remaining_components = <<>>
    /\ current_center = <<0, 0, 1>>
    /\ IdleOrder
    /\ IdleDfs
    /\ IdleCurve
    /\ IdleLine
    /\ IdleBinarize
    /\ IdleCalls
    /\ IdleEval

NextGreedy == GreedyStart \/ GreedyIterate \/ GreedyReturn

SpecGreedy == InitGreedy /\ [][NextGreedy]_vars

\* Twice the x and y sums of a component over its size: the centroid
\* (sx / n, sy / n) as the exact pair of fractions <<sx, n>>, <<sy, n>>.
CentroidX(comp) == <<SumSeq([i \in 1..Len(comp) |-> comp[i][1]]), Len(comp)>>
CentroidY(comp) == <<SumSeq([i \in 1..Len(comp) |-> comp[i][2]]), Len(comp)>>

\* Euclidean distance of the centroids of a and b, squared, as a fraction
\* <<numerator, denominator>>.
CentroidSqDist(a, b) ==
    LET ax == CentroidX(a)   ay == CentroidY(a)
        bx == CentroidX(b)   by == CentroidY(b)
        dx == ax[1] * bx[2] - bx[1] * ax[2]
        dy == ay[1] * by[2] - by[1] * ay[2]
    IN  <<dx * dx + dy * dy, ax[2] * ax[2] * bx[2] * bx[2]>>

FracLeq(f, g) == f[1] * g[2] <= g[1] * f[2]
FracLess(f, g) == f[1] * g[2] < g[1] * f[2]

\* The components not among the first n placed, in input order.
NotYetPlaced(n) ==
    SelectSeq(components,
              LAMBDA comp : \A j \in 1..n : ordered_components[j] # comp)

RECURSIVE ShapesOfRank(_)
ShapesOfRank(k) ==
    IF k = 0 THEN {<<>>}
    ELSE {Append(shape, side) :
              shape \in ShapesOfRank(k - 1), side \in 1..MaxSide}

BufferShapes == UNION {ShapesOfRank(k) : k \in 0..MaxAxes}

\* A 2-D grayscale buffer, as latex_to_pixels returns it.
IsTwoDimensional(shape) == Len(shape) = 2

\* binary = (binary_img < 128).astype(np.uint8): an elementwise comparison,
\* defined for an array of any shape.
Threshold ==
    /\ pc = "threshold"
    /\ stages_run' = Append(stages_run, "threshold")
    /\ pc' = "closing"
    /\ UNCHANGED <<buffer_shape, raised_error, notBinarize>>

\* cv2.morphologyEx(binary, cv2.MORPH_CLOSE, kernel): returns on a 2-D
\* array; on any other array the library either returns or raises cv2.error.
Closing ==
    /\ pc = "closing"
    /\ \/ /\ stages_run' = Append(stages_run, "closing")
          /\ pc' = "skeletonize"
          /\ UNCHANGED raised_error
       \/ /\ ~IsTwoDimensional(buffer_shape)
          /\ raised_error' = "cv2.error"
          /\ pc' = "skeleton_done"
          /\ UNCHANGED stages_run
    /\ UNCHANGED <<buffer_shape, notBinarize>>

\* morphology.skeletonize(binary) and the return: returns on a 2-D array; on
\* any other array the library either returns or raises ValueError.
Skeletonize ==
    /\ pc = "skeletonize"
    /\ \/ /\ stages_run' = Append(stages_run, "skeletonize")
          /\ UNCHANGED raised_error
       \/ /\ ~IsTwoDimensional(buffer_shape)
          /\ raised_error' = "ValueError"
          /\ UNCHANGED stages_run
    /\ pc' = "skeleton_done"
    /\ UNCHANGED <<buffer_shape, notBinarize>>

\* ------------------------------------------- specification SpecBinarize
\* One call of extract_skeleton on an array of any shape.
InitBinarize ==
    /\ pc = "threshold"
    /\ buffer_shape \in BufferShapes
    /\ stages_run = <<>>
    /\ raised_error = ""
    /\ IdleOrder
    /\ IdleDfs
    /\ IdleGreedy
    /\ IdleCurve
    /\ IdleLine
    /\ IdleCalls
    /\ IdleEval

NextBinarize == Threshold \/ Closing \/ Skeletonize

SpecBinarize == InitBinarize /\ [][NextBinarize]_vars

\* --------------------------------------------------------- extract_strokes
\* cv2.filter2D pads the image with BORDER_REFLECT_101: index -1 reads
\* index 1 and index n reads index n - 2.
Reflect101(i, n) ==
    IF i < 0 THEN -i ELSE IF i >= n THEN 2 * (n - 1) - i ELSE i

\* neighbors = cv2.filter2D(skeleton, -1, np.ones((3,3))) at pixel p: the
\* foreground count of the 3x3 window around p, p itself included.
neighbors(sk, p) ==
    Cardinality({d \in (-1..1) \X (-1..1) :
                     <<Reflect101(p[1] + d[1], GridH),
                       Reflect101(p[2] + d[2], GridW)>> \in sk})

\* The junction mask were the threshold one neighbour higher.
JunctionsAboveFour(sk) == {p \in sk : neighbors(sk, p) > 4}

\* junctions = (neighbors > 3) & (skeleton > 0)
junctions(sk) == {p \in sk : neighbors(sk, p) > 3}

\* The mask were the junction pixels left in it.
SkeletonKeepingJunctions(sk) == sk

\* skeleton_no_junctions = skeleton.copy(); skeleton_no_junctions[junctions] = 0
skeleton_no_junctions(sk) == sk \ junctions(sk)

\* measure.regionprops(measure.label(mask)): the coords of every region,
\* regions by label, 8-connectivity.
RegionCoords(mask) ==
    [i \in 1..Len(LabelOrder(mask)) |-> RowMajorSeq(LabelOrder(mask)[i])]

\* The segment lists the loop over the regions can build when no call of
\* order_coordinates_along_path raises.
RECURSIVE OrderedRegionLists(_)
OrderedRegionLists(regions) ==
    IF regions = <<>> THEN {<<>>}
    ELSE {<<r.value>> \o rest :
              r \in {x \in order_coordinates_along_path(Head(regions)) :
                         ~x.raised},
              rest \in OrderedRegionLists(Tail(regions))}

SomeRegionRaises(regions) ==
    \E i \in 1..Len(regions) :
        \E r \in order_coordinates_along_path(regions[i]) : r.raised

\* extract_strokes(skeleton): segments (junctions is not used further).
ExtractStrokes ==
    /\ pc = "extract_strokes"
    /\ LET regions == RegionCoords(skeleton_no_junctions(skeleton))
       IN  IF SomeRegionRaises(regions)
           THEN /\ exception' = "NetworkXNoPath"
                /\ pc' = "curve_done"
                /\ UNCHANGED <<segments, returned_junctions>>
           ELSE /\ segments' \in OrderedRegionLists(regions)
                /\ returned_junctions' = junctions(skeleton)
                /\ pc' = "segments_to_splines"
                /\ UNCHANGED exception
    /\ UNCHANGED <<skeleton, fit_raises, depth, splines, ordered_splines,
                   notCurve>>

\* ------------------------------------ segment_to_spline, segments_to_splines
\* The arc length returned with linear_spline, were it the point count
\* less one.
LinearLengthFromPoints(segment) == Len(segment) - 1

\* return linear_spline, 1.0
LinearLength(segment) == 1

\* The record segments_to_splines appends for segment number i (0-based).
SplineRecord(func, length, segment, i) ==
    [function |-> func, length |-> length,
     original_segment |-> segment, index |-> i]

\* The segment segments_to_splines is converting.
CurrentSegment == segments[Len(splines) + 1]

\* The values the resampled arc length of a fitted spline is drawn from.
ArcLengths == 0..MaxArc

\* len(segment) < 3: the piecewise-linear evaluator and the placeholder.
SegmentToSplineLinear ==
    /\ pc = "segments_to_splines"
    /\ Len(splines) < Len(segments)
    /\ Len(CurrentSegment) < 3
    /\ splines' = Append(splines,
                         SplineRecord("linear_spline",
                                      LinearLength(CurrentSegment),
                                      CurrentSegment, Len(splines)))
    /\ depth' = 0
    /\ UNCHANGED <<pc, skeleton, segments, returned_junctions, fit_raises,
                   ordered_splines, exception, notCurve>>

\* len(segment) >= 3, first call: splprep either fits, and the call returns
\* spline_func with the resampled arc length, or raises, and the except
\* clause calls segment_to_spline(segment) again.
SegmentToSplineFit ==
    /\ pc = "segments_to_splines"
    /\ Len(splines) < Len(segments)
    /\ Len(CurrentSegment) >= 3
    /\ depth = 0
    /\ \/ /\ \E arc_length \in ArcLengths :
                 splines' = Append(splines,
                                   SplineRecord("spline_func", arc_length,
                                                CurrentSegment, Len(splines)))
          /\ UNCHANGED <<fit_raises, depth>>
       \/ /\ fit_raises' = TRUE
          /\ depth' = 1
          /\ UNCHANGED splines
    /\ UNCHANGED <<pc, skeleton, segments, returned_junctions,
                   ordered_splines, exception, notCurve>>

\* The nested call gets the same segment: len(segment) >= 3 again, splprep
\* raises again, and the except clause calls segment_to_spline once more.
SegmentToSplineRetry ==
    /\ pc = "segments_to_splines"
    /\ fit_raises
    /\ depth >= 1
    /\ depth < RecursionLimit
    /\ depth' = depth + 1
    /\ UNCHANGED <<pc, skeleton, segments, returned_junctions, fit_raises,
                   splines, ordered_splines, exception, notCurve>>

\* At the interpreter's recursion limit the nested call raises
\* RecursionError inside the except clause; no frame handles it.
SegmentToSplineOverflow ==
    /\ pc = "segments_to_splines"
    /\ fit_raises
    /\ depth = RecursionLimit
    /\ exception' = "RecursionError"
    /\ pc' = "curve_done"
    /\ UNCHANGED <<skeleton, segments, returned_junctions, fit_raises, depth,
                   splines, ordered_splines, notCurve>>

\* segments_to_splines: return splines
SegmentsToSplinesReturn ==
    /\ pc = "segments_to_splines"
    /\ Len(splines) = Len(segments)
    /\ pc' = "order_splines"
    /\ UNCHANGED <<varsCurve, notCurve>>

\* ----------------------------------------------- order_splines_left_to_right
MaxOfSet(S) == CHOOSE m \in S : \A n \in S : n <= m

\* get_spline_bounds: segment[:, 0] is named x and segment[:, 1] is named y.
min_x(segment) == MinOfSet({segment[i][1] : i \in 1..Len(segment)})
max_x(segment) == MaxOfSet({segment[i][1] : i \in 1..Len(segment)})
min_y(segment) == MinOfSet({segment[i][2] : i \in 1..Len(segment)})
max_y(segment) == MaxOfSet({segment[i][2] : i \in 1..Len(segment)})

\* center_x = (min_x + max_x) / 2, doubled to stay integral.
center_x(segment) == min_x(segment) + max_x(segment)

\* center_y computed from the x bounds.
CenterYFromXBounds(segment) == min_x(segment) + max_x(segment)

\* center_y = (min_y + max_y) / 2, doubled to stay integral.
center_y(segment) == min_y(segment) + max_y(segment)

\* reading_order_key: (bounds['center_y'], bounds['center_x'])
reading_order_key(spline) ==
    <<center_y(spline.original_segment), center_x(spline.original_segment)>>

\* Tuple comparison k1 < k2.
KeyLess(k1, k2) == k1[1] < k2[1] \/ (k1[1] = k2[1] /\ k1[2] < k2[2])

\* The insertion were it to go before elements of equal key as well.
InsertBeforeEqualKeys(sorted, spline) ==
    LET later == {k \in 1..Len(sorted) :
                      ~KeyLess(reading_order_key(sorted[k]),
                               reading_order_key(spline))}
    IN  IF later = {} THEN Append(sorted, spline)
        ELSE LET k == MinOfSet(later)
             IN  SubSeq(sorted, 1, k - 1) \o <<spline>>
                     \o SubSeq(sorted, k, Len(sorted))

\* sorted(..., key=reading_order_key) is stable: an element goes before the
\* first element already placed whose key is greater.
InsertByKey(sorted, spline) ==
    LET later == {k \in 1..Len(sorted) :
                      KeyLess(reading_order_key(spline),
                              reading_order_key(sorted[k]))}
    IN  IF later = {} THEN Append(sorted, spline)
        ELSE LET k == MinOfSet(later)
             IN  SubSeq(sorted, 1, k - 1) \o <<spline>>
                     \o SubSeq(sorted, k, Len(sorted))

RECURSIVE SortedByKey(_, _)
SortedByKey(sorted, rest) ==
    IF rest = <<>> THEN sorted
    ELSE SortedByKey(InsertByKey(sorted, Head(rest)), Tail(rest))

order_splines_left_to_right(ss) == SortedByKey(<<>>, ss)

OrderSplines ==
    /\ pc = "order_splines"
    /\ ordered_splines' = order_splines_left_to_right(splines)
    /\ pc' = "curve_done"
    /\ UNCHANGED <<skeleton, segments, returned_junctions, fit_raises, depth,
                   splines, exception, notCurve>>

\* ---------------------------------- draw_latex_to_tldraw (after skeletonize)
\* The pixels were the offsets added to the wrong axes.
TransformedPixelsOffsetsSwapped(region, sx, sy) ==
    [i \in 1..Len(region) |-> <<region[i][2] + sy, region[i][1] + sx>>]

\* component_pixels of one region: (x + start_x, y + start_y) per coord.
TransformedPixels(region, sx, sy) ==
    [i \in 1..Len(region) |-> <<region[i][2] + sx, region[i][1] + sy>>]

\* The component list were single pixels appended as well.
ComponentsKeepingSinglePixels(sk, sx, sy) ==
    [i \in 1..Len(RegionCoords(sk)) |->
        TransformedPixels(RegionCoords(sk)[i], sx, sy)]

\* The regions of measure.label(skeleton, connectivity=2) with more than
\* one pixel, transformed.
ComponentsOf(sk, sx, sy) ==
    LET regions == SelectSeq(RegionCoords(sk), LAMBDA r : Len(r) > 1)
    IN  [i \in 1..Len(regions) |-> TransformedPixels(regions[i], sx, sy)]

\* Lines 91-110: build components and call _greedy_component_ordering.
DrawLatexComponents ==
    /\ pc = "draw_latex"
    /\ components' = ComponentsOf(skeleton, start_x, start_y)
    /\ pc' = "greedy_start"
    /\ UNCHANGED <<ordered_components, remaining_components, current_center,
                   notGreedy>>

\* all_drawing_paths.extend(_dfs_drawing_path(component)) for every
\* component of the list.
RECURSIVE AllDrawingPaths(_)
AllDrawingPaths(comps) ==
    IF comps = <<>> THEN <<>>
    ELSE dfs_drawing_path(Head(comps)).drawing_segments
             \o AllDrawingPaths(Tail(comps))

\* Lines 113-120: plan every component and call _draw_connected_paths.
PlanDrawingPaths ==
    /\ pc = "greedy_done"
    /\ all_drawing_paths' = AllDrawingPaths(ordered_components)
    /\ pc' = "send"
    /\ UNCHANGED <<start_x, start_y, posted, success, notLine>>

batch_size == 700

\* The batches were the range to end at n + 1: one more batch whenever n is
\* a multiple of batch_size.
BatchesOneTooMany(segs) ==
    [b \in 1..((Len(segs) + batch_size) \div batch_size) |->
        SubSeq(segs, (b - 1) * batch_size + 1,
               IF b * batch_size < Len(segs) THEN b * batch_size ELSE Len(segs))]

\* The batches were the range to end at the last multiple of batch_size:
\* full batches only.
BatchesWithoutRemainder(segs) ==
    [b \in 1..(Len(segs) \div batch_size) |->
        SubSeq(segs, (b - 1) * batch_size + 1, b * batch_size)]

\* batches = [drawing_segments[i:i + batch_size] for i in range(0, n, batch_size)]
batches(segs) ==
    [b \in 1..((Len(segs) + batch_size - 1) \div batch_size) |->
        SubSeq(segs, (b - 1) * batch_size + 1,
               IF b * batch_size < Len(segs) THEN b * batch_size ELSE Len(segs))]

\* What requests.post can do: answer 200, answer another status, raise
\* ConnectionError, raise another exception.
PostOutcomes == {"200", "other_status", "ConnectionError", "Exception"}

\* The test were it to let any answered request pass.
OkWithAnyStatus(outcome) == outcome \in {"200", "other_status"}

\* if response.status_code == 200, reached when the post did not raise.
StatusOk(outcome) == outcome = "200"

\* One iteration of the loop over batches: post the batch; any outcome but
\* status 200 returns False.
SendBatch ==
    /\ pc = "send"
    /\ Len(posted) < Len(batches(all_drawing_paths))
    /\ \E outcome \in PostOutcomes :
           /\ posted' = Append(posted,
                               [batch |-> batches(all_drawing_paths)[Len(posted) + 1],
                                outcome |-> outcome])
           /\ IF StatusOk(outcome)
              THEN UNCHANGED <<pc, success>>
              ELSE success' = FALSE /\ pc' = "line_done"
    /\ UNCHANGED <<start_x, start_y, all_drawing_paths, notLine>>

\* The loop is over: _draw_connected_paths returns True and
\* draw_latex_to_tldraw returns it.
SendReturn ==
    /\ pc = "send"
    /\ Len(posted) = Len(batches(all_drawing_paths))
    /\ success' = TRUE
    /\ pc' = "line_done"
    /\ UNCHANGED <<start_x, start_y, all_drawing_paths, posted, notLine>>

\* -------------------------------------------- specification SpecBatches
\* The primitives _dfs_drawing_path emits for a horizontal line of n + 1
\* pixels starting at (0, 0): n distinct primitives.
LinePrimitives(n) == [i \in 1..n |-> <<<<i - 1, 0>>, <<i, 0>>>>]

\* One call of _draw_connected_paths on a primitive list of any length up
\* to MaxSegments.
InitBatches ==
    /\ pc = "send"
    /\ all_drawing_paths \in {LinePrimitives(n) : n \in 0..MaxSegments}
    /\ posted = <<>>
    /\ success = FALSE
    /\ start_x = 0
    /\ start_y = 0
    /\ IdleOrder
    /\ IdleDfs
    /\ IdleGreedy
    /\ IdleCurve
    /\ IdleBinarize
    /\ IdleCalls
    /\ IdleEval

NextBatches == SendBatch \/ SendReturn

SpecBatches == InitBatches /\ [][NextBatches]_vars

\* ------------------------------------------- specification SpecPipeline
\* The skeleton masks the tracks are run on.
Skeletons == PixelSets

\* The (start_x, start_y) a caller passes: none, and one that moves x and y
\* by different amounts.
Offsets == {<<0, 0>>, <<MaxOffset, 2 * MaxOffset>>}

\* One call of either track on a skeleton mask: extract_splines after
\* extract_skeleton, or draw_latex_to_tldraw after skeletonize.
InitPipeline ==
    /\ skeleton \in Skeletons
    /\ segments = <<>>
    /\ returned_junctions = {}
    /\ fit_raises = FALSE
    /\ depth = 0
    /\ splines = <<>>
    /\ ordered_splines = <<>>
    /\ exception = ""
    /\ all_drawing_paths = <<>>
    /\ posted = <<>>
    /\ success = FALSE
    /\ \/ pc = "extract_strokes" /\ start_x = 0 /\ start_y = 0
       \/ /\ pc = "draw_latex"
          /\ \E offset \in Offsets : start_x = offset[1] /\ start_y = offset[2]
    /\ IdleOrder
    /\ IdleDfs
    /\ IdleGreedy
    /\ IdleBinarize
    /\ IdleCalls
    /\ IdleEval

NextPipeline ==
    \/ ExtractStrokes
    \/ SegmentToSplineLinear
    \/ SegmentToSplineFit
    \/ SegmentToSplineRetry
    \/ SegmentToSplineOverflow
    \/ SegmentsToSplinesReturn
    \/ OrderSplines
    \/ DrawLatexComponents
    \/ GreedyStart
    \/ GreedyIterate
    \/ GreedyReturn
    \/ PlanDrawingPaths
    \/ SendBatch
    \/ SendReturn

SpecPipeline == InitPipeline /\ [][NextPipeline]_vars

\* Twice the bounding-box centre row and centre column of a segment of
\* (row, col) points.
CenterRow(segment) ==
    MinOfSet({pt[1] : pt \in Range(segment)})
        + MaxOfSet({pt[1] : pt \in Range(segment)})

CenterCol(segment) ==
    MinOfSet({pt[2] : pt \in Range(segment)})
        + MaxOfSet({pt[2] : pt \in Range(segment)})

\* C5: order_splines_left_to_right sorts by (centre row, centre column):
\* a stroke whose bounding-box centre row is smaller precedes one whose
\* centre row is larger, whatever their centre columns.
C5_SortedByCenterRowFirst ==
    (pc = "curve_done" /\ exception = "") =>
        \A i, j \in 1..Len(ordered_splines) :
            CenterRow(ordered_splines[i].original_segment)
                < CenterRow(ordered_splines[j].original_segment)
            => i < j

\* C6: of two strokes whose bounding-box centres have the same row, the one
\* with the smaller centre column comes first.
C6_SameRowSortedByColumn ==
    (pc = "curve_done" /\ exception = "") =>
        \A i, j \in 1..Len(ordered_splines) :
            (/\ CenterRow(ordered_splines[i].original_segment)
                    = CenterRow(ordered_splines[j].original_segment)
             /\ CenterCol(ordered_splines[i].original_segment)
                    < CenterCol(ordered_splines[j].original_segment))
            => i < j

\* Two strokes with the same centre row were sorted, and the one with the
\* smaller centre column was moved in front of the one extracted before it.
C6_Witness ==
    /\ pc = "curve_done"
    /\ Len(ordered_splines) = 2
    /\ CenterRow(ordered_splines[1].original_segment)
           = CenterRow(ordered_splines[2].original_segment)
    /\ CenterCol(ordered_splines[1].original_segment)
           < CenterCol(ordered_splines[2].original_segment)
    /\ ordered_splines[1].index > ordered_splines[2].index

\* C7: when the spline fit fails for a segment of 3 or more points,
\* segment_to_spline returns the piecewise-linear evaluator with the
\* placeholder arc length for that segment, and no exception reaches the
\* caller.
C7_FitFailureFallsBackToLinear ==
    (fit_raises /\ pc \in {"order_splines", "curve_done"}) =>
        /\ exception = ""
        /\ \E i \in 1..Len(splines) :
               /\ Len(splines[i].original_segment) >= 3
               /\ splines[i].function = "linear_spline"
               /\ splines[i].length = 1

\* C8: a segment of 1 or 2 points never raises; its record holds the
\* piecewise-linear evaluator and the placeholder arc length 1.0, and
\* segments_to_splines stores one such record per segment.
C8_ShortSegmentPlaceholder ==
    /\ \A i \in 1..Len(splines) :
           Len(segments[i]) <= 2 =>
               /\ splines[i].original_segment = segments[i]
               /\ splines[i].function = "linear_spline"
               /\ splines[i].length = 1
    /\ (/\ pc \in {"order_splines", "curve_done"}
        /\ \A i \in 1..Len(segments) : Len(segments[i]) <= 2) =>
           /\ exception = ""
           /\ Len(splines) = Len(segments)

\* A one-point and a two-point segment have both been converted.
C8_Witness ==
    /\ pc = "curve_done"
    /\ \E i, j \in 1..Len(splines) :
           /\ Len(splines[i].original_segment) = 1
           /\ Len(splines[j].original_segment) = 2
           /\ splines[i].length = 1
           /\ splines[j].length = 1

\* C9: on a skeleton without foreground pixels both tracks succeed with an
\* empty result: no segment, no spline record, no primitive, no batch
\* posted, no exception, and draw_latex_to_tldraw returns True.
C9_EmptySkeletonSucceeds ==
    skeleton = {} =>
        /\ exception = ""
        /\ segments = <<>>
        /\ splines = <<>>
        /\ ordered_splines = <<>>
        /\ components = <<>>
        /\ all_drawing_paths = <<>>
        /\ posted = <<>>
        /\ pc = "line_done" => success

\* The line track has returned True on an empty skeleton.
C9_Witness ==
    /\ skeleton = {}
    /\ pc = "line_done"
    /\ success
    /\ posted = <<>>

\* The curve track has returned the empty list on an empty skeleton.
C9_CurveTrackDone ==
    /\ skeleton = {}
    /\ pc = "curve_done"
    /\ exception = ""
    /\ ordered_splines = <<>>

\* The curve track is past extract_strokes and the call returned.
StrokesReturned ==
    /\ pc \in {"segments_to_splines", "order_splines", "curve_done"}
    /\ exception # "NetworkXNoPath"

\* S is one 8-connected component of mask: it is not empty, lies in mask,
\* no pixel of mask outside S touches it, and every split of S into two
\* non-empty halves has an 8-adjacent pair across the halves.
IsComponentOf(S, mask) ==
    /\ S # {}
    /\ S \subseteq mask
    /\ \A p \in S, q \in mask \ S : ~EightAdjacent(p, q)
    /\ \A T \in SUBSET S :
           (T # {} /\ T # S) =>
               \E p \in T, q \in S \ T : EightAdjacent(p, q)

ForegroundNeighbours(p) == {q \in skeleton : EightAdjacent(p, q)}

\* C12: a pixel is in the junction mask of extract_strokes if and only if
\* it is a foreground pixel with three or more foreground pixels among its
\* 8 neighbours inside the image, on the border and in the corners as well.
C12_JunctionIffThreeNeighbours ==
    StrokesReturned =>
        \A p \in Pixels :
            p \in returned_junctions <=>
                (p \in skeleton /\ Cardinality(ForegroundNeighbours(p)) >= 3)

\* C13: in the list extract_splines returns, the index values are 0..k-1,
\* each once, and the record at list position i (0-based) has index i.
C13_IndexIsListPosition ==
    (pc = "curve_done" /\ exception = "") =>
        /\ {ordered_splines[i].index : i \in 1..Len(ordered_splines)}
               = 0..(Len(ordered_splines) - 1)
        /\ \A i \in 1..Len(ordered_splines) : ordered_splines[i].index = i - 1

\* Two coordinates at Euclidean distance <= sqrt(2): an edge of the graph.
IsEdge(p, q) == p # q /\ SqDist(p, q) <= 2

\* The indices of the coordinates with exactly one edge.
DegreeOne(cs) ==
    {i \in 1..Len(cs) :
         Cardinality({j \in 1..Len(cs) : IsEdge(cs[i], cs[j])}) = 1}

\* A sequence of coordinates of cs from s to t, every step along an edge.
IsWalk(w, cs, s, t) ==
    /\ Len(w) >= 1
    /\ w[1] = s
    /\ w[Len(w)] = t
    /\ \A i \in 1..Len(w) : w[i] \in Range(cs)
    /\ \A i \in 1..(Len(w) - 1) : IsEdge(w[i], w[i + 1])

\* C14: for n > 2 coordinates with two or more degree-1 nodes the call
\* returns a shortest path of the graph from the lowest-index degree-1 node
\* to the second-lowest-index one: a walk between the two that no walk of
\* fewer points joins.
C14_ShortestPathBetweenFirstEndpoints ==
    (/\ pc = "order_done"
     /\ Len(coords) > 2
     /\ Cardinality(DegreeOne(coords)) >= 2) =>
        LET first == MinOfSet(DegreeOne(coords))
            second == MinOfSet(DegreeOne(coords) \ {first})
            out == ordered.value
        IN  /\ ~ordered.raised
            /\ IsWalk(out, coords, coords[first], coords[second])
            /\ \A k \in 1..(Len(out) - 1) :
                   \A w \in [1..k -> Range(coords)] :
                       ~IsWalk(w, coords, coords[first], coords[second])

\* The position of p in cs.
IndexIn(cs, p) == CHOOSE i \in 1..Len(cs) : cs[i] = p

\* out is the depth-first preorder from out[1] with neighbours taken in
\* input order: every later point out[i] is joined to an earlier one; with
\* out[j] the latest such, no point strictly between them has an edge to a
\* point that is not yet visited when out[i] is (the traversal had backed
\* up to out[j]), and out[i] is the unvisited neighbour of out[j] that comes
\* first in the input.
IsDfsPreorder(out, cs) ==
    \A i \in 2..Len(out) :
        LET earlier == {j \in 1..(i - 1) : IsEdge(out[j], out[i])}
            unvisited == Range(cs) \ {out[k] : k \in 1..(i - 1)}
        IN  /\ earlier # {}
            /\ LET j == MaxOfSet(earlier)
               IN  /\ \A k \in (j + 1)..(i - 1) :
                          \A q \in unvisited : ~IsEdge(out[k], q)
                   /\ \A q \in unvisited :
                          IsEdge(out[j], q) =>
                              IndexIn(cs, out[i]) <= IndexIn(cs, q)

\* C15: for n > 2 coordinates with fewer than two degree-1 nodes the call
\* raises nothing and returns the depth-first preorder of the graph from
\* coords[0]: it starts at coords[0], holds every coordinate joined to
\* coords[0] once and no other; for n <= 2 the input is returned unchanged.
C15_DfsFallbackFromFirst ==
    pc = "order_done" =>
        /\ Len(coords) <= 2 =>
               ~ordered.raised /\ ordered.value = coords
        /\ (Len(coords) > 2 /\ Cardinality(DegreeOne(coords)) < 2) =>
               /\ ~ordered.raised
               /\ ordered.value[1] = coords[1]
               /\ IsInjective(ordered.value)
               /\ Range(ordered.value) = Grow8(Range(coords), {coords[1]})
               /\ IsDfsPreorder(ordered.value, coords)

\* A closed loop of four coordinates was traversed, in an order that is not
\* the input order.
C15_Witness ==
    /\ pc = "order_done"
    /\ Len(coords) = 4
    /\ DegreeOne(coords) = {}
    /\ ~ordered.raised
    /\ Len(ordered.value) = 4
    /\ ordered.value # coords

\* C16: in every segment extract_strokes returns that has at most two
\* points or was ordered by the shortest-path branch (its region has two or
\* more degree-1 nodes), consecutive points are 8-adjacent; consecutive
\* points that are not 8-adjacent occur only in a segment ordered by the
\* depth-first fallback.
C16_ConsecutivePointsAdjacent ==
    StrokesReturned =>
        LET regions == RegionCoords(skeleton \ returned_junctions)
        IN  /\ Len(segments) = Len(regions)
            /\ \A i \in 1..Len(segments) :
                   (\/ Len(segments[i]) <= 2
                    \/ Cardinality(DegreeOne(regions[i])) >= 2) =>
                       \A k \in 1..(Len(segments[i]) - 1) :
                           EightAdjacent(segments[i][k], segments[i][k + 1])

\* A region of three or more pixels was ordered by the shortest-path
\* branch, into an order that is not the order of the region's coords.
C16_Witness ==
    /\ pc = "segments_to_splines"
    /\ \E i \in 1..Len(segments) :
           /\ Len(segments[i]) >= 3
           /\ Cardinality(DegreeOne(RowMajorSeq(Range(segments[i])))) >= 2
           /\ segments[i] # RowMajorSeq(Range(segments[i]))

\* The second endpoints of the primitives emitted so far.
Children == {drawing_segments[i][2] : i \in 1..Len(drawing_segments)}

\* No pixel is the child of two primitives, and the start pixel of none.
ChildOfOneAtMost ==
    /\ \A i, j \in 1..Len(drawing_segments) :
           drawing_segments[i][2] = drawing_segments[j][2] => i = j
    /\ drawing_segments # <<>> =>
           TopLeftMost(component_pixels) \notin Children

\* C17: the first pixel _dfs_drawing_path visits is the one with minimal y
\* and, among those, minimal x; every step that emits a primitive appends
\* one [parent, child] whose parent is already visited, whose child is
\* 8-adjacent to the parent and becomes visited at that very step; and at
\* all times no pixel is the child of two primitives and the start pixel is
\* the child of none.
C17_ParentVisitedChildNew ==
    /\ [][(visited = {} /\ visited' # {}) =>
              visited' = {TopLeftMost(component_pixels)}]_vars
    /\ [][drawing_segments' # drawing_segments =>
              \E parent, child \in Range(component_pixels) :
                  /\ drawing_segments' =
                         Append(drawing_segments, <<parent, child>>)
                  /\ parent \in visited
                  /\ child \notin visited
                  /\ visited' = visited \cup {child}
                  /\ EightAdjacent(parent, child)]_vars
    /\ []ChildOfOneAtMost

\* The traversal of a branching component is over: one pixel is the parent
\* of two primitives.
C17_Witness ==
    /\ pc = "dfs_done"
    /\ call_stack = <<>>
    /\ scan = Len(component_pixels)
    /\ Len(drawing_segments) >= 3
    /\ \E i, j \in 1..Len(drawing_segments) :
           i # j /\ drawing_segments[i][1] = drawing_segments[j][1]

\* The primitives of the batches posted so far, in send order.
RECURSIVE SentPrimitives(_)
SentPrimitives(k) ==
    IF k = 0 THEN <<>> ELSE SentPrimitives(k - 1) \o posted[k].batch

\* ceil(n / d) for n >= 0 and d > 0.
CeilDiv(n, d) == CHOOSE k \in 0..n : k * d >= n /\ (k - 1) * d < n

\* C18: _draw_connected_paths sends a list of n primitives as ceil(n/700)
\* consecutive batches: every batch sent holds between 1 and 700 primitives,
\* every batch but the last of the list exactly 700, the primitives sent so
\* far are at all times the first ones of the list in list order, and when
\* the call returns True they are the whole list, sent in ceil(n/700)
\* batches.
C18_BatchesPreserveList ==
    LET n == Len(all_drawing_paths)
        sent == SentPrimitives(Len(posted))
    IN  /\ \A i \in 1..Len(posted) :
               /\ Len(posted[i].batch) >= 1
               /\ Len(posted[i].batch) <= 700
               /\ Len(posted[i].batch) < 700 =>
                      (i = Len(posted) /\ sent = all_drawing_paths)
        /\ Len(sent) <= n
        /\ sent = SubSeq(all_drawing_paths, 1, Len(sent))
        /\ Len(posted) <= CeilDiv(n, 700)
        /\ (pc = "line_done" /\ success) =>
               /\ sent = all_drawing_paths
               /\ Len(posted) = CeilDiv(n, 700)

\* A list of two full batches and one primitive more was sent and accepted.
C18_Witness ==
    /\ pc = "line_done"
    /\ success
    /\ Len(posted) = 3
    /\ Len(posted[1].batch) = 700
    /\ Len(posted[2].batch) = 700
    /\ Len(posted[3].batch) = 1

\* _greedy_component_ordering as one function: the list the actions
\* GreedyStart, GreedyIterate and GreedyReturn build.
RECURSIVE GreedyFrom(_, _, _)
GreedyFrom(center, remaining, placed) ==
    IF remaining = <<>> THEN placed
    ELSE LET closest == remaining[ClosestIndex(center, remaining)]
         IN  GreedyFrom(CenterAfter(center, closest),
                        ListRemove(remaining, closest),
                        Append(placed, closest))

GreedyOrderOf(comps) ==
    IF comps = <<>> THEN <<>>
    ELSE LET first == leftmost_component(comps)
         IN  GreedyFrom(get_component_center(first),
                        SelectSeq(comps, LAMBDA comp : comp # first),
                        <<first>>)

\* The primitives segs moved by (dx, dy).
Translated(segs, dx, dy) ==
    [i \in 1..Len(segs) |->
        <<<<segs[i][1][1] + dx, segs[i][1][2] + dy>>,
          <<segs[i][2][1] + dx, segs[i][2][2] + dy>>>>]

\* C19: when draw_latex_to_tldraw hands its primitive list to
\* _draw_connected_paths, every endpoint of every primitive is
\* (col + start_x, row + start_y) for a skeleton pixel (row, col), and the
\* list is the list produced with offsets (0, 0), moved by
\* (start_x, start_y): same number of primitives, same order.
C19_PrimitivesAreTranslatedPixels ==
    (pc = "send" /\ posted = <<>>) =>
        /\ \A i \in 1..Len(all_drawing_paths) :
               \A e \in 1..2 :
                   \E px \in skeleton :
                       all_drawing_paths[i][e]
                           = <<px[2] + start_x, px[1] + start_y>>
        /\ all_drawing_paths =
               Translated(
                   AllDrawingPaths(GreedyOrderOf(ComponentsOf(skeleton, 0, 0))),
                   start_x, start_y)

\* A drawing of two or more primitives was planned with offsets that differ
\* in x and y.
C19_Witness ==
    /\ pc = "send"
    /\ posted = <<>>
    /\ start_x > 0
    /\ start_y > start_x
    /\ Len(all_drawing_paths) >= 2
    /\ Len(ordered_components) >= 2

\* C20: on a buffer that is not 2-D extract_skeleton fails with a
\* validation error before any thresholding, closing or thinning runs: no
\* statement of it has run on the buffer, and when the call is over a
\* validation error has been raised.
C20_MalformedFailsBeforeProcessing ==
    Len(buffer_shape) # 2 =>
        /\ stages_run = <<>>
        /\ pc = "skeleton_done" => raised_error = "InputValidationError"

\* ----------------------------------------- specification SpecConcurrent
\* Two invocations of order_coordinates_along_path, _greedy_component_ordering
\* or _dfs_drawing_path, run statement by statement in any interleaving.
\* Every name the three functions assign (G, endpoints, path; pixel_set,
\* adjacency, visited, drawing_segments; ordered_components,
\* remaining_components, current_center) is a local of the call, so each
\* invocation has a record of its own.
CallIds == {1, 2}

StripSets == SUBSET ({0} \X (0..(MaxConcurrentLen - 1)))

NewCall(fn, input) ==
    [fn |-> fn, input |-> input, pc |-> "start",
     visited |-> {}, drawing_segments |-> <<>>, call_stack |-> <<>>,
     scan |-> 0,
     ordered_components |-> <<>>, remaining_components |-> <<>>,
     current_center |-> <<0, 0, 1>>,
     ordered |-> NoResult]

NewCalls ==
    {NewCall("_dfs_drawing_path", XYSeq(S)) : S \in StripSets}
        \cup {NewCall("_greedy_component_ordering", ComponentList(S)) :
                  S \in StripSets}
        \cup {NewCall("order_coordinates_along_path", RowMajorSeq(S)) :
                  S \in StripSets}

\* The visited set were it one module-level set all invocations add to.
VisitedSharedByAllCalls(c) == UNION {calls[d].visited : d \in CallIds}

\* visited = set() inside _dfs_drawing_path: the set invocation c tests
\* membership in is the one it created.
VisitedSeenBy(c) == calls[c].visited

\* dfs(current_pixel, parent_pixel) up to its loop, in the invocation with
\* locals r.
DfsEnterIn(r, seen, current_pixel, parent_pixel, stack) ==
    IF current_pixel \in seen
    THEN [r EXCEPT !.call_stack = stack]
    ELSE [r EXCEPT
             !.visited = @ \cup {current_pixel},
             !.drawing_segments =
                 IF parent_pixel # NoParent
                 THEN Append(@, EmittedSegment(parent_pixel, current_pixel))
                 ELSE @,
             !.call_stack = Append(stack, Frame(current_pixel, 1))]

\* The next statement of _dfs_drawing_path in the invocation with locals r:
\* what DfsBegin, DfsVisitNeighbor, DfsReturn, DfsScan and DfsFinish do.
DfsStepIn(r, seen) ==
    IF r.pc = "start"
    THEN IF Len(r.input) < 2
         THEN [r EXCEPT !.pc = "done"]
         ELSE DfsEnterIn([r EXCEPT !.pc = "dfs_run"], seen,
                         start_pixel(r.input), NoParent, <<>>)
    ELSE IF r.call_stack # <<>>
    THEN LET top == r.call_stack[Len(r.call_stack)]
             nbs == adjacency(r.input, top.pixel)
             advanced ==
                 [r.call_stack EXCEPT ![Len(r.call_stack)].next = top.next + 1]
         IN  IF top.next > Len(nbs)
             THEN [r EXCEPT !.call_stack = SubSeq(@, 1, Len(@) - 1)]
             ELSE IF nbs[top.next] \notin seen
             THEN DfsEnterIn(r, seen, nbs[top.next], top.pixel, advanced)
             ELSE [r EXCEPT !.call_stack = advanced]
    ELSE IF r.scan < Len(r.input)
    THEN IF r.input[r.scan + 1] \notin seen
         THEN DfsEnterIn([r EXCEPT !.scan = @ + 1], seen,
                         r.input[r.scan + 1], NoParent, <<>>)
         ELSE [r EXCEPT !.scan = @ + 1]
    ELSE [r EXCEPT !.pc = "done"]

\* The next statement of _greedy_component_ordering in the invocation with
\* locals r: what GreedyStart, GreedyIterate and GreedyReturn do.
GreedyStepIn(r) ==
    IF r.pc = "start"
    THEN IF r.input = <<>>
         THEN [r EXCEPT !.pc = "done"]
         ELSE LET first == leftmost_component(r.input)
              IN  [r EXCEPT
                      !.ordered_components = <<first>>,
                      !.remaining_components =
                          SelectSeq(r.input, LAMBDA comp : comp # first),
                      !.current_center = get_component_center(first),
                      !.pc = "greedy_loop"]
    ELSE IF r.remaining_components # <<>>
    THEN LET closest_component ==
                 r.remaining_components[
                     ClosestIndex(r.current_center, r.remaining_components)]
         IN  [r EXCEPT
                 !.ordered_components = Append(@, closest_component),
                 !.remaining_components = ListRemove(@, closest_component),
                 !.current_center =
                     CenterAfter(r.current_center, closest_component)]
    ELSE [r EXCEPT !.pc = "done"]

ConcurrentDfsStep(c) ==
    /\ calls[c].fn = "_dfs_drawing_path"
    /\ calls[c].pc # "done"
    /\ calls' = [calls EXCEPT ![c] = DfsStepIn(calls[c], VisitedSeenBy(c))]
    /\ UNCHANGED <<pc, varsOrder, varsDfs, varsGreedy, varsCurve, varsLine,
                   varsBinarize, varsEval>>

ConcurrentGreedyStep(c) ==
    /\ calls[c].fn = "_greedy_component_ordering"
    /\ calls[c].pc # "done"
    /\ calls' = [calls EXCEPT ![c] = GreedyStepIn(calls[c])]
    /\ UNCHANGED <<pc, varsOrder, varsDfs, varsGreedy, varsCurve, varsLine,
                   varsBinarize, varsEval>>

\* order_coordinates_along_path builds G and traces the path inside
\* library calls on its own graph object: one step.
ConcurrentOrderCall(c) ==
    /\ calls[c].fn = "order_coordinates_along_path"
    /\ calls[c].pc # "done"
    /\ \E result \in order_coordinates_along_path(calls[c].input) :
           calls' = [calls EXCEPT ![c].ordered = result, ![c].pc = "done"]
    /\ UNCHANGED <<pc, varsOrder, varsDfs, varsGreedy, varsCurve, varsLine,
                   varsBinarize, varsEval>>

InitConcurrent ==
    /\ pc = "concurrent"
    /\ calls \in [CallIds -> NewCalls]
    /\ IdleOrder
    /\ IdleDfs
    /\ IdleGreedy
    /\ IdleCurve
    /\ IdleLine
    /\ IdleBinarize
    /\ IdleEval

NextConcurrent ==
    \E c \in CallIds :
        \/ ConcurrentDfsStep(c)
        \/ ConcurrentGreedyStep(c)
        \/ ConcurrentOrderCall(c)

SpecConcurrent == InitConcurrent /\ [][NextConcurrent]_vars

\* C21: whatever the interleaving of two invocations, each one that has
\* returned holds exactly the result the function has when run alone on its
\* input: the primitives and visited set of _dfs_drawing_path, the list of
\* _greedy_component_ordering, one of the results of
\* order_coordinates_along_path.
C21_InterleavedCallsKeepResults ==
    \A c \in DOMAIN calls :
        calls[c].pc = "done" =>
            /\ calls[c].fn = "_dfs_drawing_path" =>
                   /\ calls[c].drawing_segments =
                          dfs_drawing_path(calls[c].input).drawing_segments
                   /\ calls[c].visited =
                          dfs_drawing_path(calls[c].input).visited
            /\ calls[c].fn = "_greedy_component_ordering" =>
                   calls[c].ordered_components = GreedyOrderOf(calls[c].input)
            /\ calls[c].fn = "order_coordinates_along_path" =>
                   calls[c].ordered
                       \in order_coordinates_along_path(calls[c].input)

\* Two traversals over the same pixels ran side by side: while the second
\* is still running, the first has returned and both have visited a common
\* pixel.
C21_Witness ==
    /\ calls # <<>>
    /\ calls[1].fn = "_dfs_drawing_path"
    /\ calls[2].fn = "_dfs_drawing_path"
    /\ calls[1].pc = "done"
    /\ calls[2].pc = "dfs_run"
    /\ Len(calls[2].drawing_segments) >= 1
    /\ calls[1].visited \cap calls[2].visited # {}
    /\ Len(calls[1].drawing_segments) >= 2

\* ----------------------------------------- specification SpecEvaluator
\* segment_to_spline on a segment of fewer than three points, and calls of
\* the evaluator it returns.  A parameter t is the fraction <<n, d>>, d > 0;
\* a returned point is <<row numerator, column numerator, denominator>>.
Parameters ==
    UNION {{<<n, d>> : n \in (0 - d)..(2 * d)} : d \in 1..MaxDen}

ShortSegments ==
    UNION {[1..m -> Pixels] : m \in 1..2}

\* The parameter when the evaluator leaves it as passed.
Unclipped(t) == t

\* np.clip(t, 0, 1)
clip(t) ==
    IF t[1] < 0 THEN <<0, 1>>
    ELSE IF t[1] > t[2] THEN <<1, 1>>
    ELSE t

\* np.floor of the fraction t.
floor(t) == t[1] \div t[2]

\* linear_spline(t) over segment: the point returned and the indices the
\* call subscripts segment with, as Python is given them.
linear_spline(segment, t0) ==
    LET t == clip(t0)
        m == Len(segment)
        idx == <<t[1] * (m - 1), t[2]>>
        i == floor(idx)
        frac == <<idx[1] - i * idx[2], idx[2]>>
    IN  IF m = 1
        THEN [point |-> <<segment[1][1], segment[1][2], 1>>,
              indexed |-> {0}]
        ELSE IF i >= m - 1
        THEN [point |-> <<segment[m][1], segment[m][2], 1>>,
              indexed |-> {0 - 1}]
        ELSE LET from == segment[((i + m) % m) + 1]
                 to == segment[((i + 1 + m) % m) + 1]
             IN  [point |->
                      <<from[1] * (frac[2] - frac[1]) + to[1] * frac[1],
                        from[2] * (frac[2] - frac[1]) + to[2] * frac[1],
                        frac[2]>>,
                  indexed |-> {i, i + 1}]

\* if len(segment) < 3: ... return linear_spline, 1.0
ReturnLinearSpline ==
    /\ pc = "segment_to_spline"
    /\ Len(spline_segment) < 3
    /\ pc' = "linear_spline"
    /\ UNCHANGED <<varsOrder, varsDfs, varsGreedy, varsCurve, varsLine,
                   varsBinarize, varsCalls, varsEval>>

\* One call of the returned evaluator.
CallLinearSpline ==
    /\ pc = "linear_spline"
    /\ \E t \in Parameters :
           /\ spline_t' = t
           /\ spline_value' = linear_spline(spline_segment, t)
    /\ UNCHANGED <<pc, spline_segment, varsOrder, varsDfs, varsGreedy,
                   varsCurve, varsLine, varsBinarize, varsCalls>>

InitEvaluator ==
    /\ pc = "segment_to_spline"
    /\ spline_segment \in ShortSegments
    /\ spline_t = <<0, 1>>
    /\ spline_value = <<>>
    /\ IdleOrder
    /\ IdleDfs
    /\ IdleGreedy
    /\ IdleCurve
    /\ IdleLine
    /\ IdleBinarize
    /\ IdleCalls

NextEvaluator == ReturnLinearSpline \/ CallLinearSpline

SpecEvaluator == InitEvaluator /\ [][NextEvaluator]_vars

\* The returned point v is the pixel p.
IsPixel(v, p) == v[1] = p[1] * v[3] /\ v[2] = p[2] * v[3]

\* The returned point v is (1 - n/d) * p + (n/d) * q.
IsBlend(v, n, d, p, q) ==
    /\ v[1] * d = ((d - n) * p[1] + n * q[1]) * v[3]
    /\ v[2] * d = ((d - n) * p[2] + n * q[2]) * v[3]

\* C22: the evaluator of a segment of one or two points returns
\* segment[0] for every t <= 0, the last point for every t >= 1,
\* segment[0] for every t when there is one point, and
\* (1-t)*segment[0] + t*segment[1] for two points and 0 < t < 1; every
\* subscript it uses is one Python accepts for the segment.
C22_LinearEvaluatorClamps ==
    (pc = "linear_spline" /\ spline_value # <<>>) =>
        LET m == Len(spline_segment)
            n == spline_t[1]
            d == spline_t[2]
            v == spline_value.point
        IN  /\ m \in {1, 2}
            /\ n <= 0 => IsPixel(v, spline_segment[1])
            /\ n >= d => IsPixel(v, spline_segment[m])
            /\ m = 1 => IsPixel(v, spline_segment[1])
            /\ (m = 2 /\ 0 < n /\ n < d) =>
                   IsBlend(v, n, d, spline_segment[1], spline_segment[2])
            /\ \A k \in spline_value.indexed : 0 - m <= k /\ k <= m - 1

\* The evaluator of two different points was called strictly inside (0, 1)
\* and returned a point that is neither of them.
C22_Witness ==
    /\ pc = "linear_spline"
    /\ spline_value # <<>>
    /\ Len(spline_segment) = 2
    /\ spline_segment[1] # spline_segment[2]
    /\ 0 < spline_t[1]
    /\ spline_t[1] < spline_t[2]
    /\ ~IsPixel(spline_value.point, spline_segment[1])
    /\ ~IsPixel(spline_value.point, spline_segment[2])

\* The pixels of S that are 8-adjacent to p.
NeighboursIn(S, p) == {q \in S : EightAdjacent(p, q)}

\* C23: in the pipeline every coordinate set extract_strokes passes to
\* order_coordinates_along_path is 8-connected and each of its pixels has
\* at most two 8-neighbours inside the set; no call raises, and each
\* returned segment is a permutation of the pixels of its region.
C23_RegionsArePathsOrCycles ==
    /\ exception # "NetworkXNoPath"
    /\ pc = "segments_to_splines" =>
           LET kept == skeleton \ returned_junctions
               regions == RegionCoords(kept)
           IN  /\ Len(segments) = Len(regions)
               /\ \A i \in 1..Len(regions) :
                      LET S == Range(regions[i])
                      IN  /\ IsComponentOf(S, kept)
                          /\ \A p \in S :
                                 Cardinality(NeighboursIn(S, p)) <= 2
                          /\ IsPermutationOf(segments[i], regions[i])

\* A skeleton with a junction left a region of two or more pixels whose
\* segment was returned.
C23_Witness ==
    /\ pc = "segments_to_splines"
    /\ returned_junctions # {}
    /\ \E i \in 1..Len(segments) :
           /\ Len(segments[i]) >= 2
           /\ \E p \in Range(segments[i]) :
                  /\ Cardinality(NeighboursIn(skeleton, p)) >= 2
                  /\ Cardinality(
                         NeighboursIn(Range(segments[i]), p)) = 1

\* The primitives read as undirected edges.
UndirectedEdges(segs) == {{segs[i][1], segs[i][2]} : i \in 1..Len(segs)}

\* No subset of the edges closes a cycle: every non-empty subset has a
\* pixel that only one of its edges touches.
IsForest(edges) ==
    \A F \in SUBSET edges :
        F # {} =>
            \E p \in UNION F : Cardinality({e \in F : p \in e}) = 1

\* The 8-connected parts of the pixel set S.
PartsOf(S) == {T \in SUBSET S : IsComponentOf(T, S)}

\* C24: for a component of n >= 2 distinct pixels in c 8-connected parts,
\* _dfs_drawing_path emits exactly n - c primitives; each joins two
\* different 8-adjacent pixels of one part, no two are the same undirected
\* edge and together they close no cycle; for an 8-connected component the
\* count is n - 1.
C24_PrimitivesAreSpanningForest ==
    (pc = "dfs_done" /\ Len(component_pixels) >= 2) =>
        LET S == Range(component_pixels)
            n == Len(component_pixels)
            edges == UndirectedEdges(drawing_segments)
        IN  /\ Len(drawing_segments) = n - Cardinality(PartsOf(S))
            /\ Cardinality(edges) = Len(drawing_segments)
            /\ \A i \in 1..Len(drawing_segments) :
                   /\ EightAdjacent(drawing_segments[i][1],
                                    drawing_segments[i][2])
                   /\ \E T \in PartsOf(S) :
                          /\ drawing_segments[i][1] \in T
                          /\ drawing_segments[i][2] \in T
            /\ IsForest(edges)
            /\ (\A p \in S : Grow8(S, {p}) = S) =>
                   Len(drawing_segments) = n - 1

\* A component in two parts, one of which holds a triangle of mutually
\* adjacent pixels, has been traversed.
C24_Witness ==
    /\ pc = "dfs_done"
    /\ Cardinality(PartsOf(Range(component_pixels))) = 2
    /\ Len(drawing_segments) = 2
    /\ \E p, q, r \in Range(component_pixels) :
           /\ EightAdjacent(p, q)
           /\ EightAdjacent(q, r)
           /\ EightAdjacent(p, r)

\* --------------------------------------- specification SpecGreedyLists
\* _greedy_component_ordering called on its own with any list of
\* components, equal components included.
ComponentPool == {XYSeq(S) : S \in StripSets \ {{}}}

InitGreedyLists ==
    /\ pc = "greedy_start"
    /\ \E k \in 0..MaxComponents : components \in [1..k -> ComponentPool]
    /\ ordered_components = <<>>
    /\ remaining_components = <<>>
    /\ current_center = <<0, 0, 1>>
    /\ IdleOrder
    /\ IdleDfs
    /\ IdleCurve
    /\ IdleLine
    /\ IdleBinarize
    /\ IdleCalls
    /\ IdleEval

SpecGreedyLists == InitGreedyLists /\ [][NextGreedy]_vars

\* How many elements of the list s equal x.
Occurrences(s, x) == Cardinality({i \in 1..Len(s) : s[i] = x})

\* C25: for every input list of components _greedy_component_ordering
\* returns a list of the same length in which every component occurs as
\* many times as in the input; an empty input returns an empty list.
C25_OutputIsPermutationOfInput ==
    pc = "greedy_done" =>
        /\ Len(ordered_components) = Len(components)
        /\ \A comp \in Range(components) \cup Range(ordered_components) :
               Occurrences(ordered_components, comp)
                   = Occurrences(components, comp)

\* ---------------------------------------------- specification SpecSort
\* order_splines_left_to_right called on its own with any list of records,
\* records of equal bounding-box centre included.
SortPool ==
    {<<pt>> : pt \in (0..1) \X (0..(MaxConcurrentLen - 1))}
        \cup {RowMajorSeq(S) : S \in StripSets \ {{}}}

\* The records of the segments segs as segments_to_splines numbers them.
SplineList(segs) ==
    [i \in 1..Len(segs) |->
        SplineRecord(IF Len(segs[i]) < 3 THEN "linear_spline"
                                         ELSE "spline_func",
                     1, segs[i], i - 1)]

InitSort ==
    /\ pc = "order_splines"
    /\ \E k \in 0..MaxComponents :
           \E segs \in [1..k -> SortPool] : splines = SplineList(segs)
    /\ skeleton = {}
    /\ segments = <<>>
    /\ returned_junctions = {}
    /\ fit_raises = FALSE
    /\ depth = 0
    /\ ordered_splines = <<>>
    /\ exception = ""
    /\ IdleOrder
    /\ IdleDfs
    /\ IdleGreedy
    /\ IdleLine
    /\ IdleBinarize
    /\ IdleCalls
    /\ IdleEval

SpecSort == InitSort /\ [][OrderSplines]_vars

\* The two records have the same bounding-box centre.
SameCenter(a, b) ==
    /\ CenterRow(a.original_segment) = CenterRow(b.original_segment)
    /\ CenterCol(a.original_segment) = CenterCol(b.original_segment)

\* C26: order_splines_left_to_right returns the records it was given, each
\* as often as given and unchanged, and records of equal bounding-box
\* centre stay in their input order.
C26_SortIsStablePermutation ==
    (pc = "curve_done" /\ exception = "") =>
        /\ Len(ordered_splines) = Len(splines)
        /\ \A r \in Range(splines) \cup Range(ordered_splines) :
               Occurrences(ordered_splines, r) = Occurrences(splines, r)
        /\ \A i, j \in 1..Len(splines) :
               (i < j /\ SameCenter(splines[i], splines[j])) =>
                   IndexIn(ordered_splines, splines[i])
                       < IndexIn(ordered_splines, splines[j])

\* Two records of equal centre and different segments were sorted, together
\* with a record that was moved in front of both.
C26_Witness ==
    /\ pc = "curve_done"
    /\ Len(splines) = 3
    /\ SameCenter(splines[1], splines[2])
    /\ splines[1].original_segment # splines[2].original_segment
    /\ ordered_splines = <<splines[3], splines[1], splines[2]>>

\* Every batch posted before the last one posted was answered with 200,
\* the k-th batch posted is the k-th slice of 700 of the list, and a
\* returned call gave True exactly when every slice was posted and answered
\* with 200, False right after a post that was not.
StoppedAtFirstFailure ==
    LET n == Len(all_drawing_paths)
    IN  /\ \A k \in 1..Len(posted) :
               /\ k < Len(posted) => posted[k].outcome = "200"
               /\ posted[k].batch =
                      SubSeq(all_drawing_paths, (k - 1) * 700 + 1,
                             IF k * 700 < n THEN k * 700 ELSE n)
        /\ pc = "line_done" =>
               /\ success <=>
                      /\ Len(posted) = CeilDiv(n, 700)
                      /\ \A k \in 1..Len(posted) : posted[k].outcome = "200"
               /\ ~success =>
                      /\ posted # <<>>
                      /\ posted[Len(posted)].outcome # "200"
        /\ (pc = "line_done" /\ n = 0) => (success /\ posted = <<>>)

\* A step posts at most one batch more and leaves the posts made so far
\* as they are; after the return nothing is posted.
PostsAreKept ==
    /\ Len(posted') \in {Len(posted), Len(posted) + 1}
    /\ SubSeq(posted', 1, Len(posted)) = posted
    /\ pc = "line_done" => posted' = posted

\* C27: _draw_connected_paths sends the batches strictly in order and
\* stops at the first one that is answered with another status than 200 or
\* raises: it returns False, sends no later batch and leaves the accepted
\* ones as they are; it returns True if and only if every batch was sent
\* and answered with 200, which includes the case of no batch.
C27_StopsAtFirstFailure == []StoppedAtFirstFailure /\ [][PostsAreKept]_vars

\* The second of three batches was answered with another status: the call
\* returned False with two batches posted.
C27_Witness ==
    /\ pc = "line_done"
    /\ ~success
    /\ Len(all_drawing_paths) > 1400
    /\ Len(posted) = 2
    /\ posted[1].outcome = "200"
    /\ posted[2].outcome = "other_status"

\* ----------------------------------------- specification SpecDrawLatex
\* draw_latex_to_tldraw from its first statement, with an exception
\* possible at every statement of the try block.
\* The exception classes the statements of the block raise: a parse error
\* of the renderer, a shape or type error of the array libraries, the
\* recursion limit in _dfs_drawing_path.  All derive from Exception.
ExceptionSubclasses == {"ValueError", "TypeError", "RecursionError"}

\* The positions inside the try block.
TryStages ==
    {"rasterize", "draw_latex", "greedy_start", "greedy_loop", "greedy_done",
     "send"}

\* except Exception as e: print(...); return False.  The exception that
\* leaves the function when e is raised inside the try block.
ReachesCaller(e) == IF e \in ExceptionSubclasses THEN "" ELSE e

\* print(f"... Drawing LaTeX: {latex_text}"), the statement before the try
\* block: the text is written, or, for a latex_text the output stream
\* cannot encode (a lone surrogate such as "\ud800"), print raises
\* UnicodeEncodeError with no handler around it.
Announce ==
    /\ pc = "announce"
    /\ \E encodable \in BOOLEAN :
           IF encodable
           THEN pc' = "rasterize" /\ UNCHANGED exception
           ELSE pc' = "line_done" /\ exception' = "UnicodeEncodeError"
    /\ UNCHANGED <<skeleton, segments, returned_junctions, fit_raises, depth,
                   splines, ordered_splines, notCurve>>

\* latex_to_pixels, the threshold and morphology.skeletonize returned.
Rasterize ==
    /\ pc = "rasterize"
    /\ skeleton' \in Skeletons
    /\ pc' = "draw_latex"
    /\ UNCHANGED <<segments, returned_junctions, fit_raises, depth, splines,
                   ordered_splines, exception, notCurve>>

\* A statement of the try block raises: control goes to the except clause.
RaiseInTry ==
    /\ pc \in TryStages
    /\ \E e \in ExceptionSubclasses : exception' = ReachesCaller(e)
    /\ success' = FALSE
    /\ pc' = "line_done"
    /\ UNCHANGED <<skeleton, segments, returned_junctions, fit_raises, depth,
                   splines, ordered_splines, start_x, start_y,
                   all_drawing_paths, posted, varsOrder, varsDfs, varsGreedy,
                   varsBinarize, varsCalls, varsEval>>

InitDrawLatex ==
    /\ pc = "announce"
    /\ \E offset \in Offsets : start_x = offset[1] /\ start_y = offset[2]
    /\ skeleton = {}
    /\ segments = <<>>
    /\ returned_junctions = {}
    /\ fit_raises = FALSE
    /\ depth = 0
    /\ splines = <<>>
    /\ ordered_splines = <<>>
    /\ exception = ""
    /\ all_drawing_paths = <<>>
    /\ posted = <<>>
    /\ success = FALSE
    /\ IdleOrder
    /\ IdleDfs
    /\ IdleGreedy
    /\ IdleBinarize
    /\ IdleCalls
    /\ IdleEval

NextDrawLatex ==
    \/ Announce
    \/ Rasterize
    \/ RaiseInTry
    \/ DrawLatexComponents
    \/ GreedyStart
    \/ GreedyIterate
    \/ GreedyReturn
    \/ PlanDrawingPaths
    \/ SendBatch
    \/ SendReturn

SpecDrawLatex == InitDrawLatex /\ [][NextDrawLatex]_vars

\* C28: draw_latex_to_tldraw never lets an exception reach its caller: an
\* exception raised while rasterizing, skeletonizing, ordering components,
\* planning paths or sending becomes the return value False, and True is
\* returned only when every batch of primitives was accepted.
C28_ExceptionsBecomeFalse ==
    /\ exception = ""
    /\ (pc = "line_done" /\ success) =>
           /\ SentPrimitives(Len(posted)) = all_drawing_paths
           /\ Len(posted) = CeilDiv(Len(all_drawing_paths), 700)
           /\ \A k \in 1..Len(posted) : posted[k].outcome = "200"

\* The skeleton pixels that lie in an 8-connected component of two or more
\* pixels.
PixelsOfLargerParts ==
    UNION {T \in PartsOf(skeleton) : Cardinality(T) >= 2}

\* C29: in draw_latex_to_tldraw a skeleton component of a single pixel is
\* not in the list that is sequenced and gives no primitive,
\* _dfs_drawing_path returns an empty list for a component of fewer than
\* two pixels, and the pixels the planned primitives touch are exactly the
\* pixels of the skeleton components of two or more pixels, moved by the
\* offsets.
C29_SinglePixelsDiscarded ==
    /\ \A i \in 1..Len(components) : Len(components[i]) >= 2
    /\ (pc = "send" /\ posted = <<>>) =>
           /\ SegmentEnds(all_drawing_paths)
                  = {<<px[2] + start_x, px[1] + start_y>> :
                         px \in PixelsOfLargerParts}
           /\ dfs_drawing_path(<<>>).drawing_segments = <<>>
           /\ \A px \in skeleton :
                  dfs_drawing_path(<<ToXY(px)>>).drawing_segments = <<>>

\* A skeleton with a single-pixel component next to a larger one was
\* planned: primitives exist and one skeleton pixel is on none of them.
C29_Witness ==
    /\ pc = "send"
    /\ posted = <<>>
    /\ all_drawing_paths # <<>>
    /\ \E px \in skeleton :
           /\ {px} \in PartsOf(skeleton)
           /\ <<px[2] + start_x, px[1] + start_y>>
                  \notin SegmentEnds(all_drawing_paths)

\* --------------------------------------- specification SpecTermination
\* One call of _dfs_drawing_path or of _greedy_component_ordering, statement
\* by statement.  Either function runs in one thread that executes its next
\* statement as long as there is one: weak fairness of the step.
\* The pixel sets of a block of two rows.
BlockSets == SUBSET ((0..1) \X (0..(MaxConcurrentLen - 1)))

\* The pixel sets of a row long enough for MaxConcurrentLen components.
LongStripSets == SUBSET ({0} \X (0..(2 * MaxConcurrentLen - 2)))

InitTermination ==
    /\ \/ /\ pc = "dfs_begin"
          /\ component_pixels \in {XYSeq(S) : S \in BlockSets}
          /\ components = <<>>
       \/ /\ pc = "greedy_start"
          /\ components \in {ComponentList(S) : S \in LongStripSets}
          /\ component_pixels = <<>>
    /\ visited = {}
    /\ drawing_segments = <<>>
    /\ call_stack = <<>>
    /\ scan = 0
    /\ ordered_components = <<>>
    /\ remaining_components = <<>>
    /\ current_center = <<0, 0, 1>>
    /\ IdleOrder
    /\ IdleCurve
    /\ IdleLine
    /\ IdleBinarize
    /\ IdleCalls
    /\ IdleEval

NextTermination == NextDfsSteps \/ NextGreedy

SpecTermination ==
    InitTermination /\ [][NextTermination]_vars /\ WF_vars(NextTermination)

CallReturned == pc \in {"dfs_done", "greedy_done"}

\* At no time are there more primitives than pixels less one, visited
\* holds pixels of the component only, and the greedy loop has placed
\* exactly the components that are no longer remaining: at the return,
\* after len(components) - 1 iterations, all of them.
CountsStayBounded ==
    /\ pc \in {"dfs_begin", "dfs_run", "dfs_done"} =>
           /\ visited \subseteq Range(component_pixels)
           /\ Len(drawing_segments) <= Cardinality(visited)
           /\ component_pixels # <<>> =>
                  Len(drawing_segments) <= Len(component_pixels) - 1
    /\ pc = "greedy_loop" =>
           Len(ordered_components) + Len(remaining_components)
               = Len(components)
    /\ (pc = "greedy_done" /\ components # <<>>) =>
           /\ remaining_components = <<>>
           /\ Len(ordered_components) - 1 = Len(components) - 1

\* A step that opens an activation of dfs does so on a pixel that was not
\* visited and adds exactly that pixel; every other step, a call on a
\* visited pixel included, leaves visited and the primitives as they are.
\* An iteration of the greedy loop places one component and removes one.
StepsMakeProgress ==
    /\ Len(call_stack') > Len(call_stack) =>
           LET entered == call_stack'[Len(call_stack')].pixel
           IN  /\ entered \notin visited
               /\ visited' = visited \cup {entered}
               /\ Len(drawing_segments') <= Len(drawing_segments) + 1
    /\ Len(call_stack') <= Len(call_stack) =>
           /\ visited' = visited
           /\ drawing_segments' = drawing_segments
    /\ (pc = "greedy_loop" /\ pc' = "greedy_loop") =>
           /\ Len(remaining_components') = Len(remaining_components) - 1
           /\ Len(ordered_components') = Len(ordered_components) + 1

\* C30: _dfs_drawing_path returns for every component: each pixel is added
\* to visited at most once, a call of dfs on a visited pixel returns at
\* once, and there are never more than n - 1 primitives; the while loop of
\* _greedy_component_ordering removes exactly one component per iteration
\* and, for pairwise distinct components, is over after
\* len(components) - 1 iterations.
C30_TraversalAndLoopTerminate ==
    /\ <>CallReturned
    /\ []CountsStayBounded
    /\ [][StepsMakeProgress]_vars

\* The traversal of a component of three or more pixels has returned with
\* every pixel visited and the scan loop run to its end.
C30_Witness ==
    /\ pc = "dfs_done"
    /\ Len(component_pixels) >= 3
    /\ scan = Len(component_pixels)
    /\ Cardinality(visited) = Len(component_pixels)
    /\ call_stack = <<>>

=============================================================================
